---- MODULE Spec2Model ----
(***************************************************************************)
(* Model of report.py: the Freqtrade status reporter.  main() checks the   *)
(* REST credentials, opens one HTTP session and runs report cycles         *)
(* (run_report) either once (--once) or forever, retrying failed cycles.   *)
(*                                                                         *)
(* Python strings are modelled as sequences of tokens, so that the         *)
(* substring test `"YOUR_USERNAME" in API_USERNAME` and the text produced   *)
(* by str() are computed rather than assumed.  JSON-decoded values are     *)
(* tagged records.                                                         *)
(*                                                                         *)
(* Spec is main with run_report; SpecLive is Spec in continuous mode with  *)
(* the loop kept running; SpecPure is one call of an extractor or a        *)
(* formatter on a payload drawn from bounded sets.                         *)
(***************************************************************************)
EXTENDS Integers, Sequences, FiniteSets, TLC

VARIABLES
    once,               \* args.once
    API_USERNAME, API_PASSWORD, TELEGRAM_TOKEN, TELEGRAM_CHAT_ID,
    ONCE_MAX_ATTEMPTS,
    REPORT_INCLUDE_PAIRLIST,  \* the pairlist feature flag, already parsed to a boolean
    pc,                 \* position of the single thread of control
    ret,                \* value returned by main, NotReturned before
    session,            \* "none", "open" or "closed"
    closes,             \* number of calls of session.close()
    attempts,           \* main's counter of failed cycle attempts
    exc,                \* class of the exception in flight, "" if none
    sleepFor,           \* duration the thread is sleeping for, "" if none
    fetched,            \* payloads held by the current run_report frame
    ep,                 \* fetch_whitelist: index of the endpoint being tried
    data,               \* fetch_whitelist: the local `data`
    pairs,              \* run_report: the local `pairs`
    \* history variables
    reqLog,             \* network requests issued by the current attempt, in order
    wlHit,              \* index of the whitelist endpoint that answered, 0 if none
    lastOutcome,        \* how the last finished attempt ended: "none", "ok", "failed"
    tryNo,              \* attempts started at the current report cycle
    excSeen,            \* exception classes raised by the attempts of the current cycle
    sleeps,             \* sleeps taken since the last attempt ended
    anyGet, anyPost,    \* whether a GET / a POST has ever been issued
    \* a single call of one of the pure functions, for the properties of
    \* the extractors and formatters
    call,               \* the function called and its arguments
    result              \* what it returned

cfgVars == <<once, API_USERNAME, API_PASSWORD, TELEGRAM_TOKEN, TELEGRAM_CHAT_ID,
             ONCE_MAX_ATTEMPTS, REPORT_INCLUDE_PAIRLIST>>
wlVars == <<ep, data, pairs, wlHit>>
vars == <<once, API_USERNAME, API_PASSWORD, TELEGRAM_TOKEN, TELEGRAM_CHAT_ID,
          ONCE_MAX_ATTEMPTS, REPORT_INCLUDE_PAIRLIST, pc, ret, session, closes, attempts,
          exc, sleepFor, fetched, ep, data, pairs, reqLog, wlHit, lastOutcome,
          tryNo, excSeen, sleeps, anyGet, anyPost, call, result>>

(***************************************************************************)
(* Bounds                                                                  *)
(***************************************************************************)
\* largest configured REPORT_ONCE_MAX_ATTEMPTS
MaxOnceAttempts == 2
\* failed attempts explored in continuous mode (Python's int is unbounded)
MaxFailures == 2
\* longest list inside a pairlist response
MaxListLen == 2
\* most entries of an object in a pairlist response
MaxKeys == 2

NotReturned == -1

(***************************************************************************)
(* JSON-decoded values                                                     *)
(***************************************************************************)
JNull == [t |-> "null"]
JNum(n) == [t |-> "num", n |-> n]
JStr(s) == [t |-> "str", s |-> s]
JList(l) == [t |-> "list", l |-> l]
JBool(b) == [t |-> "bool", b |-> b]
\* a float, held as its number m of ten-thousandths
JFloat(m) == [t |-> "float", m |-> m]
JObj(o) == [t |-> "obj", o |-> o]

SeqsUpTo(S, n) == UNION {[1..k -> S] : k \in 0..n}

PairNames == {JStr(<<"BTC/USDT">>), JStr(<<"ETH/USDT">>)}
Scalars == {JNull, JNum(7), JStr(<<"BTC/USDT">>)}
Lists == {JList(l) : l \in SeqsUpTo(PairNames, MaxListLen)}
\* values under the keys of an object
EntryVals == {JNum(7), JList(<<JStr(<<"BTC/USDT">>), JStr(<<"ETH/USDT">>)>>)}
Keys == {"whitelist", "pairs", "pairlist", "data"}
Objs ==
    {JObj(o) : o \in {e \in SeqsUpTo([k : Keys, v : EntryVals], MaxKeys) :
                        \A i, j \in 1..Len(e) : e[i].k = e[j].k => i = j}}
\* bodies the status API may answer a pairlist request with
WhitelistResponses == Scalars \cup Lists \cup Objs

(***************************************************************************)
(* str() and repr()                                                        *)
(***************************************************************************)
Abs(n) == IF n < 0 THEN 0 - n ELSE n
Sign(n) == IF n < 0 THEN "-" ELSE ""

\* the decimal digits of n, zero-filled on the left to the given width
ZeroFill(n, width) ==
    LET digits == ToString(n)
    IN  IF Len(digits) >= width THEN digits
        ELSE SubSeq("00000000", 1, width - Len(digits)) \o digits

RECURSIVE StripZeros(_)
\* drops the zeros at the end of a fraction, keeping one digit
StripZeros(digits) ==
    IF Len(digits) > 1 /\ SubSeq(digits, Len(digits), Len(digits)) = "0"
    THEN StripZeros(SubSeq(digits, 1, Len(digits) - 1))
    ELSE digits

\* repr() of the float m / 10000
FloatRepr(m) ==
    Sign(m) \o ToString(Abs(m) \div 10000) \o "."
            \o StripZeros(ZeroFill(Abs(m) % 10000, 4))

RECURSIVE Str(_), Repr(_), JoinRepr(_), JoinItems(_)

JoinRepr(l) ==
    IF l = <<>> THEN <<>>
    ELSE IF Len(l) = 1 THEN Repr(l[1])
    ELSE Repr(l[1]) \o <<", ">> \o JoinRepr(Tail(l))

JoinItems(o) ==
    IF o = <<>> THEN <<>>
    ELSE IF Len(o) = 1 THEN <<"'", o[1].k, "'", ": ">> \o Repr(o[1].v)
    ELSE <<"'", o[1].k, "'", ": ">> \o Repr(o[1].v) \o <<", ">> \o JoinItems(Tail(o))

Str(v) ==
    CASE v.t = "null" -> <<"None">>
      [] v.t = "num" -> <<ToString(v.n)>>
      [] v.t = "bool" -> IF v.b THEN <<"True">> ELSE <<"False">>
      [] v.t = "float" -> <<FloatRepr(v.m)>>
      [] v.t = "str" -> v.s
      [] v.t = "list" -> <<"[">> \o JoinRepr(v.l) \o <<"]">>
      [] v.t = "obj" -> <<"{">> \o JoinItems(v.o) \o <<"}">>

Repr(v) == IF v.t = "str" THEN <<"'">> \o v.s \o <<"'">> ELSE Str(v)

\* [str(x) for x in xs]
StrEach(xs) == [i \in 1..Len(xs) |-> JStr(Str(xs[i]))]

RECURSIVE Flat(_)
\* the characters of a string given by its tokens
Flat(tokens) == IF tokens = <<>> THEN "" ELSE tokens[1] \o Flat(Tail(tokens))

\* bool(v)
Truthy(v) ==
    CASE v.t = "null" -> FALSE
      [] v.t = "bool" -> v.b
      [] v.t = "num" -> v.n # 0
      [] v.t = "float" -> v.m # 0
      [] v.t = "str" -> Flat(v.s) # ""
      [] v.t = "list" -> v.l # <<>>
      [] v.t = "obj" -> v.o # <<>>

\* a or b
PyOr(a, b) == IF Truthy(a) THEN a ELSE b

\* needle in haystack, for strings
Contains(needle, haystack) == \E i \in 1..Len(haystack) : haystack[i] = needle

(***************************************************************************)
(* fetch_whitelist, from the first answered request on                     *)
(***************************************************************************)
HasKey(d, key) == \E i \in 1..Len(d.o) : d.o[i].k = key
Get(d, key) == d.o[CHOOSE i \in 1..Len(d.o) : d.o[i].k = key].v
Values(d) == [i \in 1..Len(d.o) |-> d.o[i].v]

\* d.get(key, default) and d.get(key)
GetOr(d, key, default) == IF HasKey(d, key) THEN Get(d, key) ELSE default
GetOpt(d, key) == GetOr(d, key, JNull)

KnownKeys == <<"whitelist", "pairs", "pairlist">>

ParseWhitelist(d) ==
    IF d = JNull THEN JList(<<>>)
    ELSE IF d.t = "obj" THEN
        LET hits == {i \in 1..Len(KnownKeys) :
                        HasKey(d, KnownKeys[i]) /\ Get(d, KnownKeys[i]).t = "list"}
        IN  IF hits # {}
            THEN JList(StrEach(Get(d, KnownKeys[CHOOSE i \in hits : \A j \in hits : i <= j]).l))
            ELSE IF Values(d) = <<>> THEN JList(<<>>)   \* IndexError, caught
            ELSE StrEach(Values(d))[1]
    ELSE IF d.t = "list" THEN JList(StrEach(d.l))
    ELSE JList(<<>>)

(***************************************************************************)
(* Configuration                                                           *)
(***************************************************************************)
\* values of a credential: the placeholder, a real value, text around the placeholder
CredValues(placeholder) == {<<placeholder>>, <<"secret">>, <<"x-", placeholder>>}

ApiPlaceholder ==
    \/ Contains("YOUR_USERNAME", API_USERNAME)
    \/ Contains("YOUR_PASSWORD", API_PASSWORD)

TokenPlaceholder == Contains("YOUR_TELEGRAM_BOT_TOKEN", TELEGRAM_TOKEN)
ChatPlaceholder == Contains("YOUR_TELEGRAM_CHAT_ID", TELEGRAM_CHAT_ID)

MainEndpoints == <<"status", "profit", "balance">>
WhitelistEndpoints == <<"whitelist", "pairlist", "pairs">>

\* what fetch_endpoint raises: requests' errors, or ValueError on a malformed body
FetchErrors == {"RequestException", "Exception"}

\* no pure function is under test
NoCall == [fn |-> "none"]

Init ==
    /\ once \in BOOLEAN
    /\ API_USERNAME \in CredValues("YOUR_USERNAME")
    /\ API_PASSWORD \in CredValues("YOUR_PASSWORD")
    /\ TELEGRAM_TOKEN \in CredValues("YOUR_TELEGRAM_BOT_TOKEN")
    /\ TELEGRAM_CHAT_ID \in CredValues("YOUR_TELEGRAM_CHAT_ID")
    /\ ONCE_MAX_ATTEMPTS \in 0..MaxOnceAttempts
    /\ REPORT_INCLUDE_PAIRLIST \in BOOLEAN
    /\ pc = "check_credentials"
    /\ ret = NotReturned
    /\ session = "none"
    /\ closes = 0
    /\ attempts = 0
    /\ exc = ""
    /\ sleepFor = ""
    /\ fetched = <<>>
    /\ ep = 0
    /\ data = JNull
    /\ pairs = JNull
    /\ reqLog = <<>>
    /\ wlHit = 0
    /\ lastOutcome = "none"
    /\ tryNo = 0
    /\ excSeen = {}
    /\ sleeps = <<>>
    /\ anyGet = FALSE
    /\ anyPost = FALSE
    /\ call = NoCall
    /\ result = JNull

(***************************************************************************)
(* main: startup                                                           *)
(***************************************************************************)
CheckCredentials ==
    /\ pc = "check_credentials"
    /\ IF ApiPlaceholder
       THEN /\ ret' = 1
            /\ pc' = "returned"
            /\ UNCHANGED <<session, closes, attempts>>
       ELSE /\ session' = "open" /\ UNCHANGED closes
            /\ attempts' = 0
            /\ pc' = "fetch_status"
            /\ UNCHANGED ret
    /\ UNCHANGED <<cfgVars, call, result, exc, sleepFor, fetched, wlVars, reqLog, lastOutcome,
                   tryNo, excSeen, sleeps, anyGet, anyPost>>

(***************************************************************************)
(* run_report                                                              *)
(***************************************************************************)
\* failures are explored without limit in single-shot mode, where the code
\* bounds them, and up to MaxFailures in continuous mode
CanFail == once \/ attempts < MaxFailures

\* an exception leaves run_report and reaches the except clauses of main
Raise(kind) ==
    /\ pc' = "except"
    /\ exc' = kind
    /\ lastOutcome' = "failed"
    /\ excSeen' = excSeen \cup {kind}
    /\ sleeps' = <<>>

Payload(endpoint, n) == [ep |-> endpoint, try |-> n]

FetchStatus ==
    /\ pc = "fetch_status"
    /\ tryNo' = tryNo + 1
    /\ reqLog' = <<"status">>
    /\ anyGet' = TRUE
    /\ ep' = 0 /\ data' = JNull /\ pairs' = JNull /\ wlHit' = 0
    /\ \/ /\ fetched' = <<Payload("status", tryNo + 1)>>
          /\ pc' = "fetch_profit"
          /\ UNCHANGED <<exc, lastOutcome, excSeen, sleeps>>
       \/ /\ CanFail
          /\ fetched' = <<>>
          /\ \E kind \in FetchErrors : Raise(kind)
    /\ UNCHANGED <<cfgVars, call, result, ret, session, closes, attempts, sleepFor, anyPost>>

\* FetchProfit with the failure swallowed: run_report goes on without the payload
FetchProfit_swallow ==
    /\ pc = "fetch_profit"
    /\ reqLog' = Append(reqLog, "profit")
    /\ \/ fetched' = Append(fetched, Payload("profit", tryNo))
       \/ CanFail /\ UNCHANGED fetched
    /\ pc' = "fetch_balance"
    /\ UNCHANGED <<cfgVars, call, result, ret, session, closes, attempts, exc, sleepFor,
                   wlVars, lastOutcome, tryNo, excSeen, sleeps, anyGet, anyPost>>

FetchProfit ==
    /\ pc = "fetch_profit"
    /\ reqLog' = Append(reqLog, "profit")
    /\ \/ /\ fetched' = Append(fetched, Payload("profit", tryNo))
          /\ pc' = "fetch_balance"
          /\ UNCHANGED <<exc, lastOutcome, excSeen, sleeps>>
       \/ /\ CanFail
          /\ \E kind \in FetchErrors : Raise(kind)
          /\ UNCHANGED fetched
    /\ UNCHANGED <<cfgVars, call, result, ret, session, closes, attempts, sleepFor, wlVars, tryNo,
                   anyGet, anyPost>>

FetchBalance ==
    /\ pc = "fetch_balance"
    /\ reqLog' = Append(reqLog, "balance")
    /\ \/ /\ fetched' = Append(fetched, Payload("balance", tryNo))
          /\ pc' = "extract"
          /\ UNCHANGED <<exc, lastOutcome, excSeen, sleeps>>
       \/ /\ CanFail
          /\ \E kind \in FetchErrors : Raise(kind)
          /\ UNCHANGED fetched
    /\ UNCHANGED <<cfgVars, call, result, ret, session, closes, attempts, sleepFor, wlVars, tryNo,
                   anyGet, anyPost>>

\* the extractors are total; then the pairlist feature flag is tested
Extract ==
    /\ pc = "extract"
    /\ IF REPORT_INCLUDE_PAIRLIST
       THEN pc' = "fetch_whitelist" /\ ep' = 1 /\ data' = JNull
       ELSE pc' = "send" /\ UNCHANGED <<ep, data>>
    /\ UNCHANGED <<cfgVars, call, result, ret, session, closes, attempts, exc, sleepFor,
                   fetched, pairs, reqLog, wlHit, lastOutcome, tryNo, excSeen, sleeps, anyGet,
                   anyPost>>

\* one pass of the loop over the candidate endpoints, and on leaving the
\* loop the rest of fetch_whitelist
\* FetchWhitelist letting the failure of the last candidate escape
FetchWhitelist_raise ==
    /\ pc = "fetch_whitelist"
    /\ reqLog' = Append(reqLog, WhitelistEndpoints[ep])
    /\ \/ /\ \E d \in WhitelistResponses :
               /\ data' = d
               /\ wlHit' = ep
               /\ pairs' = ParseWhitelist(d)
               /\ pc' = "send"
               /\ UNCHANGED ep
          /\ UNCHANGED <<exc, lastOutcome, excSeen, sleeps>>
       \/ IF ep < Len(WhitelistEndpoints)
          THEN /\ ep' = ep + 1
               /\ UNCHANGED <<pc, data, pairs, wlHit, exc, lastOutcome, excSeen, sleeps>>
          ELSE /\ CanFail
               /\ Raise("RequestException")
               /\ UNCHANGED <<ep, data, pairs, wlHit>>
    /\ UNCHANGED <<cfgVars, call, result, ret, session, closes, attempts, sleepFor, fetched,
                   tryNo, anyGet, anyPost>>

FetchWhitelist ==
    /\ pc = "fetch_whitelist"
    /\ reqLog' = Append(reqLog, WhitelistEndpoints[ep])
    /\ \/ \E d \in WhitelistResponses :
            /\ data' = d
            /\ wlHit' = ep
            /\ pairs' = ParseWhitelist(d)
            /\ pc' = "send"
            /\ UNCHANGED ep
       \/ IF ep < Len(WhitelistEndpoints)
          THEN ep' = ep + 1 /\ UNCHANGED <<pc, data, pairs, wlHit>>
          ELSE pairs' = ParseWhitelist(data) /\ pc' = "send" /\ UNCHANGED <<ep, data, wlHit>>
    /\ UNCHANGED <<cfgVars, call, result, ret, session, closes, attempts, exc, sleepFor, fetched,
                   lastOutcome, tryNo, excSeen, sleeps, anyGet, anyPost>>

\* SendTelegramMessage testing the token only
SendTelegramMessage_tokenOnly ==
    /\ pc = "send"
    /\ IF TokenPlaceholder
       THEN /\ CanFail
            /\ Raise("Exception")
            /\ UNCHANGED <<reqLog, anyPost>>
       ELSE /\ reqLog' = Append(reqLog, "POST")
            /\ anyPost' = TRUE
            /\ \/ /\ pc' = "after_report"
                  /\ lastOutcome' = "ok"
                  /\ sleeps' = <<>>
                  /\ UNCHANGED <<exc, excSeen>>
               \/ /\ CanFail
                  /\ Raise("RequestException")
    /\ data' = JNull /\ pairs' = JNull
    /\ UNCHANGED <<cfgVars, call, result, ret, session, closes, attempts, sleepFor, fetched,
                   ep, wlHit, tryNo, anyGet>>

SendTelegramMessage ==
    /\ pc = "send"
    /\ IF TokenPlaceholder \/ ChatPlaceholder
       THEN /\ CanFail
            /\ Raise("Exception")
            /\ UNCHANGED <<reqLog, anyPost>>
       ELSE /\ reqLog' = Append(reqLog, "POST")
            /\ anyPost' = TRUE
            /\ \/ /\ pc' = "after_report"
                  /\ lastOutcome' = "ok"
                  /\ sleeps' = <<>>
                  /\ UNCHANGED <<exc, excSeen>>
               \/ /\ CanFail
                  /\ Raise("RequestException")
    /\ data' = JNull /\ pairs' = JNull   \* the frame of run_report is gone
    /\ UNCHANGED <<cfgVars, call, result, ret, session, closes, attempts, sleepFor, fetched,
                   ep, wlHit, tryNo, anyGet>>

(***************************************************************************)
(* main: the loop around run_report                                        *)
(***************************************************************************)
\* AfterReport leaving the loop in both modes
AfterReport_alwaysBreak ==
    /\ pc = "after_report"
    /\ session' = "closed" /\ closes' = closes + 1
    /\ ret' = 0
    /\ pc' = "returned"
    /\ UNCHANGED <<cfgVars, call, result, attempts, exc, sleepFor, fetched, wlVars, reqLog,
                   lastOutcome, tryNo, excSeen, sleeps, anyGet, anyPost>>

\* AfterReport going on to the next cycle in both modes
AfterReport_loopAgain ==
    /\ pc = "after_report"
    /\ pc' = "sleep"
    /\ sleepFor' = "REPORT_INTERVAL"
    /\ tryNo' = 0
    /\ excSeen' = {}
    /\ UNCHANGED <<session, closes, ret>>
    /\ UNCHANGED <<cfgVars, call, result, attempts, exc, fetched, wlVars, reqLog, lastOutcome,
                   sleeps, anyGet, anyPost>>

AfterReport ==
    /\ pc = "after_report"
    /\ IF once
       THEN /\ session' = "closed" /\ closes' = closes + 1
            /\ ret' = 0
            /\ pc' = "returned"
            /\ UNCHANGED <<sleepFor, tryNo, excSeen>>
       ELSE /\ pc' = "sleep"
            /\ sleepFor' = "REPORT_INTERVAL"
            /\ tryNo' = 0
            /\ excSeen' = {}
            /\ UNCHANGED <<session, closes, ret>>
    /\ UNCHANGED <<cfgVars, call, result, attempts, exc, fetched, wlVars, reqLog, lastOutcome,
                   sleeps, anyGet, anyPost>>

\* HandleRequestException retrying at once, without the delay
HandleRequestException_noSleep ==
    /\ pc = "except"
    /\ exc = "RequestException"
    /\ attempts' = attempts + 1
    /\ exc' = ""
    /\ IF once /\ attempts' >= ONCE_MAX_ATTEMPTS
       THEN /\ session' = "closed" /\ closes' = closes + 1
            /\ ret' = 1
            /\ pc' = "returned"
       ELSE /\ pc' = "fetch_status"
            /\ UNCHANGED <<session, closes, ret>>
    /\ UNCHANGED <<cfgVars, call, result, sleepFor, fetched, wlVars, reqLog, lastOutcome, tryNo,
                   excSeen, sleeps, anyGet, anyPost>>

\* HandleRequestException giving up one failure late
HandleRequestException_late ==
    /\ pc = "except"
    /\ exc = "RequestException"
    /\ attempts' = attempts + 1
    /\ exc' = ""
    /\ IF once /\ attempts' > ONCE_MAX_ATTEMPTS
       THEN /\ session' = "closed" /\ closes' = closes + 1
            /\ ret' = 1
            /\ pc' = "returned"
            /\ UNCHANGED sleepFor
       ELSE /\ pc' = "sleep"
            /\ sleepFor' = "RETRY_DELAY_SECONDS"
            /\ UNCHANGED <<session, closes, ret>>
    /\ UNCHANGED <<cfgVars, call, result, fetched, wlVars, reqLog, lastOutcome, tryNo, excSeen,
                   sleeps, anyGet, anyPost>>

\* HandleRequestException applying the attempt budget in both modes
HandleRequestException_anyMode ==
    /\ pc = "except"
    /\ exc = "RequestException"
    /\ attempts' = attempts + 1
    /\ exc' = ""
    /\ IF attempts' >= ONCE_MAX_ATTEMPTS
       THEN /\ session' = "closed" /\ closes' = closes + 1
            /\ ret' = 1
            /\ pc' = "returned"
            /\ UNCHANGED sleepFor
       ELSE /\ pc' = "sleep"
            /\ sleepFor' = "RETRY_DELAY_SECONDS"
            /\ UNCHANGED <<session, closes, ret>>
    /\ UNCHANGED <<cfgVars, call, result, fetched, wlVars, reqLog, lastOutcome, tryNo, excSeen,
                   sleeps, anyGet, anyPost>>

HandleRequestException ==
    /\ pc = "except"
    /\ exc = "RequestException"
    /\ attempts' = attempts + 1
    /\ exc' = ""
    /\ IF once /\ attempts' >= ONCE_MAX_ATTEMPTS
       THEN /\ session' = "closed" /\ closes' = closes + 1
            /\ ret' = 1
            /\ pc' = "returned"
            /\ UNCHANGED sleepFor
       ELSE /\ pc' = "sleep"
            /\ sleepFor' = "RETRY_DELAY_SECONDS"
            /\ UNCHANGED <<session, closes, ret>>
    /\ UNCHANGED <<cfgVars, call, result, fetched, wlVars, reqLog, lastOutcome, tryNo, excSeen,
                   sleeps, anyGet, anyPost>>

\* HandleException not counting the failure
HandleException_uncounted ==
    /\ pc = "except"
    /\ exc # "RequestException"
    /\ exc' = ""
    /\ IF once /\ attempts >= ONCE_MAX_ATTEMPTS
       THEN /\ session' = "closed" /\ closes' = closes + 1
            /\ ret' = 1
            /\ pc' = "returned"
            /\ UNCHANGED sleepFor
       ELSE /\ pc' = "sleep"
            /\ sleepFor' = "RETRY_DELAY_SECONDS"
            /\ UNCHANGED <<session, closes, ret>>
    /\ UNCHANGED <<cfgVars, call, result, attempts, fetched, wlVars, reqLog, lastOutcome, tryNo,
                   excSeen, sleeps, anyGet, anyPost>>

\* HandleException applying the attempt budget in both modes
HandleException_anyMode ==
    /\ pc = "except"
    /\ exc # "RequestException"
    /\ attempts' = attempts + 1
    /\ exc' = ""
    /\ IF attempts' >= ONCE_MAX_ATTEMPTS
       THEN /\ session' = "closed" /\ closes' = closes + 1
            /\ ret' = 1
            /\ pc' = "returned"
            /\ UNCHANGED sleepFor
       ELSE /\ pc' = "sleep"
            /\ sleepFor' = "RETRY_DELAY_SECONDS"
            /\ UNCHANGED <<session, closes, ret>>
    /\ UNCHANGED <<cfgVars, call, result, fetched, wlVars, reqLog, lastOutcome, tryNo, excSeen,
                   sleeps, anyGet, anyPost>>

\* HandleException returning with the session left open
HandleException_noClose ==
    /\ pc = "except"
    /\ exc # "RequestException"
    /\ attempts' = attempts + 1
    /\ exc' = ""
    /\ IF once /\ attempts' >= ONCE_MAX_ATTEMPTS
       THEN /\ ret' = 1
            /\ pc' = "returned"
            /\ UNCHANGED <<session, closes, sleepFor>>
       ELSE /\ pc' = "sleep"
            /\ sleepFor' = "RETRY_DELAY_SECONDS"
            /\ UNCHANGED <<session, closes, ret>>
    /\ UNCHANGED <<cfgVars, call, result, fetched, wlVars, reqLog, lastOutcome, tryNo, excSeen,
                   sleeps, anyGet, anyPost>>

HandleException ==
    /\ pc = "except"
    /\ exc # "RequestException"
    /\ attempts' = attempts + 1
    /\ exc' = ""
    /\ IF once /\ attempts' >= ONCE_MAX_ATTEMPTS
       THEN /\ session' = "closed" /\ closes' = closes + 1
            /\ ret' = 1
            /\ pc' = "returned"
            /\ UNCHANGED sleepFor
       ELSE /\ pc' = "sleep"
            /\ sleepFor' = "RETRY_DELAY_SECONDS"
            /\ UNCHANGED <<session, closes, ret>>
    /\ UNCHANGED <<cfgVars, call, result, fetched, wlVars, reqLog, lastOutcome, tryNo, excSeen,
                   sleeps, anyGet, anyPost>>

\* time.sleep returns and the loop starts the next attempt
Sleep ==
    /\ pc = "sleep"
    /\ sleeps' = Append(sleeps, sleepFor)
    /\ sleepFor' = ""
    /\ pc' = "fetch_status"
    /\ UNCHANGED <<cfgVars, call, result, ret, session, closes, attempts, exc, fetched, wlVars,
                   reqLog, lastOutcome, tryNo, excSeen, anyGet, anyPost>>

Next ==
    \/ CheckCredentials
    \/ FetchStatus
    \/ FetchProfit
    \/ FetchBalance
    \/ Extract
    \/ FetchWhitelist
    \/ SendTelegramMessage
    \/ AfterReport
    \/ HandleRequestException
    \/ HandleException
    \/ Sleep

Spec == Init /\ [][Next]_vars

(***************************************************************************)
(* Properties                                                              *)
(***************************************************************************)
Last(q) == q[Len(q)]
Range(q) == {q[i] : i \in 1..Len(q)}
\* positions inside run_report
InReport == {"fetch_profit", "fetch_balance", "extract", "fetch_whitelist", "send"}

\* C1: in single-shot mode with a maximum of M >= 1 attempts, once the
\* credential check has passed, main returns 1 exactly when M attempts have
\* failed, having started the cycle exactly M times and never more; when it
\* returns 0 after k failures it has started the cycle exactly k + 1 times,
\* so M - 1 failures followed by a success return 0 after M attempts.
C1_SingleShotBudget ==
    (once /\ ONCE_MAX_ATTEMPTS >= 1 /\ session # "none") =>
        /\ tryNo <= ONCE_MAX_ATTEMPTS
        /\ (attempts = ONCE_MAX_ATTEMPTS <=> (pc = "returned" /\ ret = 1))
        /\ (pc = "returned" /\ ret = 1 =>
                tryNo = ONCE_MAX_ATTEMPTS /\ lastOutcome = "failed")
        /\ (pc = "returned" /\ ret = 0 =>
                /\ tryNo = attempts + 1
                /\ attempts < ONCE_MAX_ATTEMPTS
                /\ lastOutcome = "ok")
        /\ (pc = "returned" => ret \in {0, 1})

C1_Witness ==
    /\ once /\ ONCE_MAX_ATTEMPTS >= 2
    /\ pc = "returned" /\ ret = 1
    /\ tryNo = ONCE_MAX_ATTEMPTS /\ attempts = ONCE_MAX_ATTEMPTS

\* C2: in continuous mode main never returns once the credential check has
\* passed: a failed attempt always leads to the retry sleep and then to a new
\* attempt, also when the attempt counter has reached the single-shot maximum.
C2_ContinuousNeverReturns ==
    /\ [](~once /\ session # "none" =>
            pc # "returned" /\ ret = NotReturned /\ session = "open")
    /\ [][~once /\ pc = "except" =>
            pc' = "sleep" /\ sleepFor' = "RETRY_DELAY_SECONDS"]_vars
    /\ [][~once /\ pc = "sleep" => pc' = "fetch_status"]_vars

C2_Witness ==
    /\ ~once
    /\ attempts > ONCE_MAX_ATTEMPTS /\ ONCE_MAX_ATTEMPTS >= 1
    /\ pc = "fetch_profit"

\* C3: an attempt requests status, profit, balance in that order; the POST is
\* issued only after the three payloads of this very attempt are held; a
\* failed fetch is the last request of its attempt; and every attempt, a
\* retry included, begins with the status request.
C3_FetchOrderThenSend ==
    /\ \A i \in 1..Len(reqLog) :
        /\ i <= 3 => reqLog[i] = MainEndpoints[i]
        /\ i > 3 => reqLog[i] \notin Range(MainEndpoints)
    /\ Len(fetched) <= 3
    /\ pc \in InReport \cup {"after_report", "except"} =>
            \A j \in 1..Len(fetched) : fetched[j] = Payload(MainEndpoints[j], tryNo)
    /\ \A i \in 1..Len(reqLog) :
            reqLog[i] = "POST" => i = Len(reqLog) /\ Len(fetched) = 3
    /\ pc = "fetch_profit" => Len(fetched) = 1
    /\ pc = "fetch_balance" => Len(fetched) = 2
    /\ pc \in {"extract", "fetch_whitelist", "send", "after_report"} => Len(fetched) = 3
    /\ (pc \notin InReport /\ Len(fetched) < 3) => Len(reqLog) \in {0, Len(fetched) + 1}

C3_Witness ==
    /\ tryNo = 2
    /\ Len(fetched) = 3
    /\ Len(reqLog) >= 4 /\ Last(reqLog) = "POST"

\* C4: with any placeholder credential configured (REST user name or
\* password, bot token, chat id) no GET and no POST is ever issued and main
\* can only return 1.
C4_PlaceholderFatalBeforeNetwork ==
    (ApiPlaceholder \/ TokenPlaceholder \/ ChatPlaceholder) =>
        /\ ~anyGet
        /\ ~anyPost
        /\ (pc = "returned" => ret = 1)

\* C5: with a placeholder bot token or chat id, send_telegram_message raises
\* without issuing its POST, so no POST is ever issued in the run.
C5_NoPostWithPlaceholder ==
    /\ []((TokenPlaceholder \/ ChatPlaceholder) =>
            ~anyPost /\ "POST" \notin Range(reqLog))
    /\ [][(pc = "send" /\ (TokenPlaceholder \/ ChatPlaceholder)) =>
            pc' = "except" /\ exc' = "Exception" /\ reqLog' = reqLog]_vars

C5_Witness ==
    /\ ~TokenPlaceholder /\ ChatPlaceholder
    /\ pc = "except" /\ exc = "Exception"
    /\ Len(fetched) = 3 /\ Len(reqLog) >= 3
    /\ tryNo >= 2

\* C6: main returns only 0 or 1; 0 only in single-shot mode, straight after
\* the attempt whose POST succeeded; 1 only from the credential check, before
\* any request, or in single-shot mode when the failed attempts have reached
\* the maximum.
C6_ReturnPaths ==
    /\ [](/\ ret \in {NotReturned, 0, 1}
          /\ (pc = "returned" <=> ret # NotReturned)
          /\ (ret = 0 =>
                /\ once
                /\ lastOutcome = "ok"
                /\ reqLog # <<>> /\ Last(reqLog) = "POST")
          /\ (ret = 1 =>
                \/ ApiPlaceholder /\ session = "none" /\ ~anyGet /\ ~anyPost
                \/ /\ once /\ session = "closed"
                   /\ lastOutcome = "failed"
                   /\ attempts >= ONCE_MAX_ATTEMPTS))
    /\ [][pc' = "returned" /\ pc # "returned" =>
            \/ pc = "check_credentials" /\ ret' = 1
            \/ pc = "after_report" /\ ret' = 0
            \/ pc = "except" /\ ret' = 1]_vars

C6_Witness ==
    /\ pc = "returned" /\ ret = 0
    /\ attempts >= 1
    /\ Last(reqLog) = "POST"

IsWhitelistEndpoint(r) == r \in Range(WhitelistEndpoints)
\* the pairlist requests of the current attempt
WlReqs == SelectSeq(reqLog, IsWhitelistEndpoint)

\* C7: fetch_whitelist requests whitelist, pairlist, pairs in that order and
\* nothing after the first answer; a failed request never leaves it as an
\* exception nor counts as a failed attempt; when all three fail it returns
\* the empty list and the cycle goes on to send its message.
C7_WhitelistNeverAborts ==
    /\ [](/\ Len(WlReqs) <= Len(WhitelistEndpoints)
          /\ \A i \in 1..Len(WlReqs) : WlReqs[i] = WhitelistEndpoints[i]
          /\ (wlHit # 0 => Len(WlReqs) = wlHit)
          /\ (~REPORT_INCLUDE_PAIRLIST => WlReqs = <<>>)
          /\ (pc = "send" /\ REPORT_INCLUDE_PAIRLIST /\ wlHit = 0 =>
                Len(WlReqs) = Len(WhitelistEndpoints) /\ pairs = JList(<<>>)))
    /\ [][pc = "fetch_whitelist" =>
            /\ pc' \in {"fetch_whitelist", "send"}
            /\ attempts' = attempts /\ exc' = exc /\ lastOutcome' = lastOutcome]_vars
    /\ [][(pc = "send" /\ ~TokenPlaceholder /\ ~ChatPlaceholder) =>
            Last(reqLog') = "POST"]_vars

C7_Witness ==
    /\ REPORT_INCLUDE_PAIRLIST
    /\ wlHit = 0 /\ WlReqs = WhitelistEndpoints
    /\ pc = "after_report" /\ Last(reqLog) = "POST"

\* C8: for every body answered by the first successful endpoint,
\* fetch_whitelist returns the list of the body's elements if it is a list;
\* for an object the elements of the list under the first of the keys
\* whitelist, pairs, pairlist that holds a list, else the elements of the
\* first value that is a collection; and the empty list in every other case.
C8_WhitelistShape ==
    (pc = "send" /\ wlHit # 0) =>
        pairs =
            IF data.t = "list" THEN JList(StrEach(data.l))
            ELSE IF data.t = "obj" THEN
                LET known == {i \in 1..Len(KnownKeys) :
                                HasKey(data, KnownKeys[i])
                                /\ Get(data, KnownKeys[i]).t = "list"}
                    colls == {i \in 1..Len(data.o) : data.o[i].v.t = "list"}
                IN  IF known # {}
                    THEN JList(StrEach(Get(data,
                            KnownKeys[CHOOSE i \in known : \A j \in known : i <= j]).l))
                    ELSE IF colls # {}
                    THEN JList(StrEach(
                            data.o[CHOOSE i \in colls : \A j \in colls : i <= j].v.l))
                    ELSE JList(<<>>)
            ELSE JList(<<>>)

\* C9: both except clauses do the same: whatever the class of the exception,
\* the failure adds one to attempts, the sum is compared with the single-shot
\* maximum, and main either returns 1 or sleeps the retry delay; in
\* single-shot mode attempts equals the number of failed cycle attempts.
C9_FailureKindsAlike ==
    /\ [][pc = "except" =>
            /\ attempts' = attempts + 1
            /\ IF once /\ attempts' >= ONCE_MAX_ATTEMPTS
               THEN pc' = "returned" /\ ret' = 1
               ELSE pc' = "sleep" /\ sleepFor' = "RETRY_DELAY_SECONDS"]_vars
    /\ [](once =>
            attempts = IF \/ pc \in InReport \cup {"after_report", "except"}
                          \/ (pc = "returned" /\ ret = 0)
                       THEN tryNo - 1
                       ELSE tryNo)

C9_Witness ==
    /\ once /\ pc = "returned" /\ ret = 1
    /\ excSeen = {"RequestException", "Exception"}
    /\ attempts = 2 /\ ONCE_MAX_ATTEMPTS = 2

\* C10: in continuous mode a new attempt starts only out of a sleep, after
\* exactly one sleep since the previous attempt ended: the report interval
\* if that attempt succeeded, the retry delay if it failed.
C10_OneSleepBetweenAttempts ==
    /\ [](~once =>
            /\ Len(sleeps) <= 1
            /\ (pc = "fetch_status" /\ lastOutcome = "ok" =>
                    sleeps = <<"REPORT_INTERVAL">>)
            /\ (pc = "fetch_status" /\ lastOutcome = "failed" =>
                    sleeps = <<"RETRY_DELAY_SECONDS">>)
            /\ (pc = "sleep" =>
                    sleepFor = IF lastOutcome = "ok" THEN "REPORT_INTERVAL"
                               ELSE "RETRY_DELAY_SECONDS"))
    /\ [][~once /\ pc' = "fetch_status" =>
            pc \in {"check_credentials", "sleep"}]_vars

C10_Witness ==
    /\ ~once /\ pc = "fetch_status"
    /\ lastOutcome = "ok" /\ attempts >= 1
    /\ sleeps = <<"REPORT_INTERVAL">>

(***************************************************************************)
(* The extractors                                                          *)
(***************************************************************************)
Min(a, b) == IF a <= b THEN a ELSE b
Max(a, b) == IF a >= b THEN a ELSE b

\* xs[:n] for n >= 0, of a list or of a string
Take(xs, n) == SubSeq(xs, 1, Min(n, Len(xs)))

\* xs[:limit]
PySlice(xs, limit) ==
    IF limit >= 0 THEN Take(xs, limit) ELSE Take(xs, Max(0, Len(xs) + limit))

RECURSIVE JoinWith(_, _)
\* sep.join(parts)
JoinWith(sep, parts) ==
    IF parts = <<>> THEN <<>>
    ELSE IF Len(parts) = 1 THEN parts[1]
    ELSE parts[1] \o <<sep>> \o JoinWith(sep, Tail(parts))

\* extract_status with the two keys of the state tried in the other order
extract_status_stateFirst(status_payload) ==
    IF status_payload.t # "obj"
    THEN <<Str(status_payload), <<"n/a">>>>
    ELSE
        LET state == PyOr(GetOpt(status_payload, "state"),
                          PyOr(GetOpt(status_payload, "status"), JStr(<<"unknown">>)))
            open_trades == GetOpt(status_payload, "open_trades")
            counted == IF open_trades.t = "list" THEN JNum(Len(open_trades.l))
                       ELSE open_trades
            trades == IF counted = JNull
                      THEN GetOr(status_payload, "trades", JStr(<<"n/a">>))
                      ELSE counted
        IN  <<Str(state), Str(trades)>>

extract_status(status_payload) ==
    IF status_payload.t # "obj"
    THEN <<Str(status_payload), <<"n/a">>>>
    ELSE
        LET state == PyOr(GetOpt(status_payload, "status"),
                          PyOr(GetOpt(status_payload, "state"), JStr(<<"unknown">>)))
            open_trades == GetOpt(status_payload, "open_trades")
            counted == IF open_trades.t = "list" THEN JNum(Len(open_trades.l))
                       ELSE open_trades
            trades == IF counted = JNull
                      THEN GetOr(status_payload, "trades", JStr(<<"n/a">>))
                      ELSE counted
        IN  <<Str(state), Str(trades)>>

\* isinstance(v, (int, float)); a bool is an int
IsNumber(v) == v.t \in {"num", "float", "bool"}

\* a number in ten-thousandths
Scaled(v) ==
    CASE v.t = "num" -> v.n * 10000
      [] v.t = "float" -> v.m
      [] v.t = "bool" -> IF v.b THEN 10000 ELSE 0

\* f"{v:.8f}"
Format8(v) ==
    LET x == Scaled(v)
    IN  Sign(x) \o ToString(Abs(x) \div 10000) \o "."
                \o ZeroFill(Abs(x) % 10000, 4) \o "0000"

\* f"{v * 100:.2f}%"
Pct2(v) ==
    LET x == Scaled(v)
    IN  Sign(x) \o ToString(Abs(x) \div 100) \o "." \o ZeroFill(Abs(x) % 100, 2) \o "%"

\* extract_profit trying profit_sum before profit_total
extract_profit_sumFirst(profit_payload) ==
    IF profit_payload.t # "obj"
    THEN <<Str(profit_payload), <<"n/a">>>>
    ELSE
        LET abs_profit == PyOr(GetOpt(profit_payload, "profit_sum"),
                            PyOr(GetOpt(profit_payload, "profit_total"),
                              PyOr(GetOpt(profit_payload, "profit_abs"), JNum(0))))
            pct_profit == PyOr(GetOpt(profit_payload, "profit_pct"),
                            PyOr(GetOpt(profit_payload, "profit_percent"),
                                 GetOpt(profit_payload, "profit_ratio")))
            abs_string == IF IsNumber(abs_profit) THEN <<Format8(abs_profit)>>
                          ELSE Str(abs_profit)
            pct_string == IF IsNumber(pct_profit) THEN <<Pct2(pct_profit)>>
                          ELSE Str(PyOr(pct_profit, JStr(<<"n/a">>)))
        IN  <<abs_string, pct_string>>

extract_profit(profit_payload) ==
    IF profit_payload.t # "obj"
    THEN <<Str(profit_payload), <<"n/a">>>>
    ELSE
        LET abs_profit == PyOr(GetOpt(profit_payload, "profit_total"),
                            PyOr(GetOpt(profit_payload, "profit_sum"),
                              PyOr(GetOpt(profit_payload, "profit_abs"), JNum(0))))
            pct_profit == PyOr(GetOpt(profit_payload, "profit_pct"),
                            PyOr(GetOpt(profit_payload, "profit_percent"),
                                 GetOpt(profit_payload, "profit_ratio")))
            abs_string == IF IsNumber(abs_profit) THEN <<Format8(abs_profit)>>
                          ELSE Str(abs_profit)
            pct_string == IF IsNumber(pct_profit) THEN <<Pct2(pct_profit)>>
                          ELSE Str(PyOr(pct_profit, JStr(<<"n/a">>)))
        IN  <<abs_string, pct_string>>

Quote == "\""

RECURSIVE Dumps(_), DumpsItems(_), DumpsEntries(_)
\* json.dumps(v, default=str)
Dumps(v) ==
    CASE v.t = "null" -> "null"
      [] v.t = "bool" -> IF v.b THEN "true" ELSE "false"
      [] v.t = "num" -> ToString(v.n)
      [] v.t = "float" -> FloatRepr(v.m)
      [] v.t = "str" -> Quote \o Flat(v.s) \o Quote
      [] v.t = "list" -> "[" \o DumpsItems(v.l) \o "]"
      [] v.t = "obj" -> "{" \o DumpsEntries(v.o) \o "}"

DumpsItems(l) ==
    IF l = <<>> THEN ""
    ELSE IF Len(l) = 1 THEN Dumps(l[1])
    ELSE Dumps(l[1]) \o ", " \o DumpsItems(Tail(l))

DumpsEntries(o) ==
    IF o = <<>> THEN ""
    ELSE LET first == Quote \o o[1].k \o Quote \o ": " \o Dumps(o[1].v)
         IN  IF Len(o) = 1 THEN first ELSE first \o ", " \o DumpsEntries(Tail(o))

\* the part of one entry of the balance section
BalancePart(entry) ==
    LET held == entry.v
        total == PyOr(GetOpt(held, "total"),
                      PyOr(GetOpt(held, "available"), GetOpt(held, "free")))
    IN  IF held.t = "obj"
        THEN <<entry.k, ": ">> \o Str(total)
        ELSE <<entry.k, ": ">> \o Str(held)

\* extract_balance without the isinstance test of the payload
extract_balance_anyPayload(balance_payload) ==
    LET p == IF balance_payload.t = "obj" THEN balance_payload ELSE JObj(<<>>)
        balance_section == PyOr(GetOpt(p, "wallets"),
                             PyOr(GetOpt(p, "balance"),
                               PyOr(GetOpt(p, "total"), balance_payload)))
        parts == [i \in 1..Len(balance_section.o) |-> BalancePart(balance_section.o[i])]
    IN  IF balance_section.t = "obj" /\ balance_section.o # <<>>
        THEN JoinWith(", ", Take(parts, 5))
        ELSE <<Take(Dumps(balance_section), 200)>>

extract_balance(balance_payload) ==
    IF balance_payload.t # "obj"
    THEN Str(balance_payload)
    ELSE
        LET balance_section == PyOr(GetOpt(balance_payload, "wallets"),
                                 PyOr(GetOpt(balance_payload, "balance"),
                                   PyOr(GetOpt(balance_payload, "total"), balance_payload)))
            parts == [i \in 1..Len(balance_section.o) |->
                        BalancePart(balance_section.o[i])]
        IN  IF balance_section.t = "obj" /\ balance_section.o # <<>>
            THEN JoinWith(", ", Take(parts, 5))
            ELSE <<Take(Dumps(balance_section), 200)>>

(***************************************************************************)
(* format_pairlist and build_message                                       *)
(***************************************************************************)
\* the line of three backquotes that opens and closes the code block
Fence == "'''"

RECURSIVE Strip(_), Lower(_), Spaces(_), Rows(_, _), Lines(_)
\* s.strip()
Strip(s) ==
    IF s # "" /\ SubSeq(s, 1, 1) = " " THEN Strip(SubSeq(s, 2, Len(s)))
    ELSE IF s # "" /\ SubSeq(s, Len(s), Len(s)) = " " THEN Strip(SubSeq(s, 1, Len(s) - 1))
    ELSE s

UpperCase == "ABCDEFGHIJKLMNOPQRSTUVWXYZ"
LowerCase == "abcdefghijklmnopqrstuvwxyz"
LowerChar(c) ==
    LET at == {i \in 1..Len(UpperCase) : SubSeq(UpperCase, i, i) = c}
    IN  IF at = {} THEN c ELSE LET i == CHOOSE i \in at : TRUE IN SubSeq(LowerCase, i, i)

\* s.lower()
Lower(s) == IF s = "" THEN "" ELSE LowerChar(SubSeq(s, 1, 1)) \o Lower(SubSeq(s, 2, Len(s)))

\* (style or "list").strip().lower()
Style(style) == Lower(Strip(IF style = "" THEN "list" ELSE style))

Spaces(n) == IF n <= 0 THEN "" ELSE " " \o Spaces(n - 1)

\* s.ljust(width)
Ljust(s, width) == IF Len(s) >= width THEN s ELSE s \o Spaces(width - Len(s))

\* the items of a pairlist: the elements of a list, the characters of a string
Items(pairlist) ==
    IF pairlist.t = "list" THEN pairlist.l
    ELSE LET s == Flat(pairlist.s) IN [i \in 1..Len(s) |-> JStr(<<SubSeq(s, i, i)>>)]

\* f"{i:2d}"
Rank2(i) == IF i < 10 THEN " " \o ToString(i) ELSE ToString(i)

\* f"{i:2d}. {p}"
Label(i, p) == <<Rank2(i), ". ">> \o Str(p)

\* the cells in rows of cols cells, the last row holding what is left
Rows(cells, cols) ==
    IF cells = <<>> THEN <<>>
    ELSE <<Take(cells, cols)>> \o Rows(SubSeq(cells, cols + 1, Len(cells)), cols)

\* format_pairlist with rows of one cell more
format_pairlist_wideRows(pairlist, limit, style, heading, columns, colwidth) ==
    LET items == Items(pairlist)
        shown == PySlice(items, limit)
        head == <<heading, " (", ToString(Len(items)), " total, showing ",
                  ToString(Len(shown)), "):">>
        cols == Max(1, columns) + 1
        width == Max(8, colwidth)
        cells == [i \in 1..Len(shown) |-> Ljust(Flat(Label(i, shown[i])), width)]
        body == JoinWith("\n", Rows(cells, cols))
        lines == [i \in 1..Len(shown) |-> Label(i, shown[i])]
    IN  IF items = <<>> THEN <<>>
        ELSE IF Style(style) = "columns"
        THEN head \o <<"\n", Fence, "\n">> \o body \o <<"\n", Fence>>
        ELSE JoinWith("\n", <<head>> \o lines)

format_pairlist(pairlist, limit, style, heading, columns, colwidth) ==
    LET items == Items(pairlist)
        shown == PySlice(items, limit)
        head == <<heading, " (", ToString(Len(items)), " total, showing ",
                  ToString(Len(shown)), "):">>
        cols == Max(1, columns)
        width == Max(8, colwidth)
        cells == [i \in 1..Len(shown) |-> Ljust(Flat(Label(i, shown[i])), width)]
        body == JoinWith("\n", Rows(cells, cols))
        lines == [i \in 1..Len(shown) |-> Label(i, shown[i])]
    IN  IF items = <<>> THEN <<>>
        ELSE IF Style(style) = "columns"
        THEN head \o <<"\n", Fence, "\n">> \o body \o <<"\n", Fence>>
        ELSE JoinWith("\n", <<head>> \o lines)

build_message(status, trades, profit_abs, profit_pct, balance, pairlist_block, timestamp) ==
    LET msg == <<"Freqtrade Status Report", "\n", "Time: ", timestamp, "\n", "Status: ">>
               \o status \o <<"\n", "Open trades: ">> \o trades
               \o <<"\n", "Profit: ">> \o profit_abs \o <<" (">> \o profit_pct \o <<")">>
               \o <<"\n", "Balance: ">> \o balance \o <<"\n">>
    IN  IF Truthy(pairlist_block) THEN msg \o <<"\n">> \o pairlist_block.s \o <<"\n">>
        ELSE msg

\* the message run_report composes from the three payloads, from what
\* fetch_whitelist returned and from the settings of the environment
message(status_payload, profit_payload, balance_payload, include, whitelist, env, timestamp) ==
    LET st == extract_status(status_payload)
        pr == extract_profit(profit_payload)
        balance_info == extract_balance(balance_payload)
        pairlist_block ==
            IF include /\ Truthy(whitelist)
            THEN JStr(format_pairlist(whitelist, env.limit, env.style, env.heading,
                                      env.columns, env.colwidth))
            ELSE JNull
    IN  build_message(st[1], st[2], pr[1], pr[2], balance_info, pairlist_block, timestamp)

\* text.split("\n")
Lines(tokens) ==
    LET nl == {i \in 1..Len(tokens) : tokens[i] = "\n"}
    IN  IF nl = {} THEN <<tokens>>
        ELSE LET i == CHOOSE i \in nl : \A j \in nl : i <= j
             IN  <<SubSeq(tokens, 1, i - 1)>> \o Lines(SubSeq(tokens, i + 1, Len(tokens)))

(***************************************************************************)
(* Inputs of the pure functions                                            *)
(***************************************************************************)
\* the objects of at most MaxKeys entries over the given keys and values
ObjsOver(keys, vals) ==
    {JObj(o) : o \in {e \in SeqsUpTo([k : keys, v : vals], MaxKeys) :
                        \A i, j \in 1..Len(e) : e[i].k = e[j].k => i = j}}

\* payloads that are not objects
NonObjects ==
    {JNull, JBool(TRUE), JBool(FALSE), JNum(0), JNum(7), JFloat(537), JFloat(-12500),
     JStr(<<>>), JStr(<<"stopped">>), JList(<<>>),
     JList(<<JNum(1), JStr(<<"a">>), JNull>>)}

StatusVals ==
    {JNull, JNum(0), JNum(3), JStr(<<>>), JStr(<<"running">>), JList(<<>>),
     JList(<<JNum(1), JNum(2), JNum(3)>>)}
StatusPayloads ==
    NonObjects \cup ObjsOver({"status", "state", "open_trades", "trades"}, StatusVals)

ProfitKeys ==
    {"profit_total", "profit_sum", "profit_abs", "profit_pct", "profit_percent",
     "profit_ratio"}
ProfitVals == {JNull, JNum(0), JNum(5), JFloat(537), JFloat(-12500), JStr(<<"12%">>)}
ProfitPayloads == NonObjects \cup ObjsOver(ProfitKeys, ProfitVals)

\* what a currency of a wallet may hold
EntryData ==
    <<JNum(3),
      JObj(<<[k |-> "total", v |-> JNum(2)]>>),
      JObj(<<[k |-> "total", v |-> JNum(0)], [k |-> "available", v |-> JFloat(15000)]>>),
      JObj(<<[k |-> "total", v |-> JNum(0)]>>),
      JObj(<<[k |-> "free", v |-> JNum(0)]>>),
      JStr(<<"locked">>)>>
Currency(i) == "CUR" \o ToString(i)
\* a wallet of n currencies
Wallet(n) ==
    JObj([i \in 1..n |-> [k |-> Currency(i), v |-> EntryData[((i - 1) % Len(EntryData)) + 1]]])
\* one currency more than extract_balance reports
MaxWallets == 6
Wallets == {Wallet(n) : n \in 0..MaxWallets}

RECURSIVE Repeat(_, _)
Repeat(s, n) == IF n = 0 THEN "" ELSE s \o Repeat(s, n - 1)
\* a text of more characters than extract_balance keeps
LongText == JStr(<<Repeat("0123456789", 21)>>)

SectionVals ==
    {JNull, JNum(0), JFloat(15000), LongText, JList(<<JNum(1)>>),
     Wallet(0), Wallet(1), Wallet(MaxWallets)}
BalancePayloads ==
    NonObjects \cup Wallets \cup ObjsOver({"wallets", "balance", "total"}, SectionVals)

MaxPairs == 3
PairIds == {JStr(<<"BTC/USDT">>), JStr(<<"ETH/USDT">>), JStr(<<"1000SHIB/USDT:USDT">>)}
\* a pairlist whose ranks reach two digits
ElevenPairs == JList([i \in 1..11 |-> JStr(<<"P", ToString(i), "/USDT">>)])
Pairlists == {JList(l) : l \in SeqsUpTo(PairIds, MaxPairs)} \cup {ElevenPairs}
Limits == {-1, 0, 1, 2, 25}
ListStyles == {"", "list", "table"}
ColumnStyles == {"columns", " Columns "}
ColumnCounts == {0, 1, 2, 3}
ColumnWidths == {0, 18}
Timestamp == "2026-01-01 00:00:00 UTC"

PairlistCalls ==
    [fn : {"format_pairlist"}, pairs : Pairlists, limit : Limits, style : ListStyles,
     heading : {"Pairlist"}, columns : {3}, colwidth : {18}]
    \cup
    [fn : {"format_pairlist"}, pairs : Pairlists, limit : Limits, style : ColumnStyles,
     heading : {"Pairlist"}, columns : ColumnCounts, colwidth : ColumnWidths]

ReportCalls ==
    [fn : {"run_report"},
     status : {JObj(<<[k |-> "status", v |-> JStr(<<"running">>)],
                      [k |-> "open_trades", v |-> JList(<<JNum(1), JNum(2)>>)]>>)},
     profit : {JObj(<<[k |-> "profit_total", v |-> JFloat(15000)],
                      [k |-> "profit_ratio", v |-> JFloat(537)]>>)},
     balance : {Wallet(2)},
     include : BOOLEAN,
     data : WhitelistResponses,
     limit : {0, 25}, style : {"list", "columns"},
     heading : {"Pairlist"}, columns : {3}, colwidth : {18},
     timestamp : {Timestamp}]

Calls ==
    {[fn |-> "extract_status", arg |-> p] : p \in StatusPayloads}
    \cup {[fn |-> "extract_profit", arg |-> p] : p \in ProfitPayloads}
    \cup {[fn |-> "extract_balance", arg |-> p] : p \in BalancePayloads}
    \cup PairlistCalls
    \cup ReportCalls

(***************************************************************************)
(* One call of a pure function                                             *)
(***************************************************************************)
\* everything but pc and result
callFrame == <<cfgVars, call, ret, session, closes, attempts, exc, sleepFor, fetched,
               wlVars, reqLog, lastOutcome, tryNo, excSeen, sleeps, anyGet, anyPost>>

InitPure ==
    /\ call \in Calls
    /\ result = JNull
    /\ pc = "call"
    /\ once = FALSE
    /\ API_USERNAME = <<"secret">>
    /\ API_PASSWORD = <<"secret">>
    /\ TELEGRAM_TOKEN = <<"secret">>
    /\ TELEGRAM_CHAT_ID = <<"secret">>
    /\ ONCE_MAX_ATTEMPTS = 1
    /\ REPORT_INCLUDE_PAIRLIST = FALSE
    /\ ret = NotReturned
    /\ session = "none"
    /\ closes = 0
    /\ attempts = 0
    /\ exc = ""
    /\ sleepFor = ""
    /\ fetched = <<>>
    /\ ep = 0
    /\ data = JNull
    /\ pairs = JNull
    /\ reqLog = <<>>
    /\ wlHit = 0
    /\ lastOutcome = "none"
    /\ tryNo = 0
    /\ excSeen = {}
    /\ sleeps = <<>>
    /\ anyGet = FALSE
    /\ anyPost = FALSE

CallExtractStatus ==
    /\ pc = "call"
    /\ call.fn = "extract_status"
    /\ result' = extract_status(call.arg)
    /\ pc' = "return"
    /\ UNCHANGED callFrame

CallExtractProfit ==
    /\ pc = "call"
    /\ call.fn = "extract_profit"
    /\ result' = extract_profit(call.arg)
    /\ pc' = "return"
    /\ UNCHANGED callFrame

CallExtractBalance ==
    /\ pc = "call"
    /\ call.fn = "extract_balance"
    /\ result' = extract_balance(call.arg)
    /\ pc' = "return"
    /\ UNCHANGED callFrame

CallFormatPairlist ==
    /\ pc = "call"
    /\ call.fn = "format_pairlist"
    /\ result' = format_pairlist(call.pairs, call.limit, call.style, call.heading,
                                 call.columns, call.colwidth)
    /\ pc' = "return"
    /\ UNCHANGED callFrame

\* lines 240 to 248 of run_report, on what the requests answered
CallRunReport ==
    /\ pc = "call"
    /\ call.fn = "run_report"
    /\ result' = message(call.status, call.profit, call.balance, call.include,
                         ParseWhitelist(call.data), call, call.timestamp)
    /\ pc' = "return"
    /\ UNCHANGED callFrame

NextPure ==
    \/ CallExtractStatus
    \/ CallExtractProfit
    \/ CallExtractBalance
    \/ CallFormatPairlist
    \/ CallRunReport

SpecPure == InitPure /\ [][NextPure]_vars

Returned(fn) == pc = "return" /\ call.fn = fn

\* C11 as claimed: for an object payload, extract_status returns as state the
\* text of the value under status if that key is present, else of the value
\* under state if present, else "unknown"; and as trade count the length of
\* open_trades if it is a list, else its value, else the value of trades,
\* else "n/a".
C11_StatusFirstPresent ==
    (Returned("extract_status") /\ call.arg.t = "obj") =>
        LET p == call.arg
            state == IF HasKey(p, "status") THEN Get(p, "status")
                     ELSE IF HasKey(p, "state") THEN Get(p, "state")
                     ELSE JStr(<<"unknown">>)
            count == IF HasKey(p, "open_trades") /\ Get(p, "open_trades") # JNull
                     THEN IF Get(p, "open_trades").t = "list"
                          THEN JNum(Len(Get(p, "open_trades").l))
                          ELSE Get(p, "open_trades")
                     ELSE IF HasKey(p, "trades") THEN Get(p, "trades")
                     ELSE JStr(<<"n/a">>)
        IN  /\ Flat(result[1]) = Flat(Str(state))
            /\ Flat(result[2]) = Flat(Str(count))

\* the values under the given keys that are present and truthy, in key order
TruthyUnder(p, keys) ==
    SelectSeq([i \in 1..Len(keys) |-> GetOpt(p, keys[i])], Truthy)

\* C11 as amended: the state is the text of the first truthy value among
\* those under status and state, "unknown" if neither is truthy; the trade
\* count is the length of open_trades if it is a list, the text of its value
\* if it is anything else but null, else the text of the value of trades if
\* that key is present, else "n/a".
C11_StatusFirstTruthy ==
    (Returned("extract_status") /\ call.arg.t = "obj") =>
        LET p == call.arg
            found == TruthyUnder(p, <<"status", "state">>)
            ot == GetOpt(p, "open_trades")
        IN  /\ Flat(result[1]) =
                    IF found = <<>> THEN "unknown" ELSE Flat(Str(found[1]))
            /\ Flat(result[2]) =
                    IF ot.t = "list" THEN ToString(Len(ot.l))
                    ELSE IF ot # JNull THEN Flat(Str(ot))
                    ELSE IF HasKey(p, "trades") THEN Flat(Str(Get(p, "trades")))
                    ELSE "n/a"

C11_Witness ==
    /\ Returned("extract_status") /\ call.arg.t = "obj"
    /\ HasKey(call.arg, "status") /\ ~Truthy(Get(call.arg, "status"))
    /\ HasKey(call.arg, "state") /\ Truthy(Get(call.arg, "state"))
    /\ Flat(result[1]) = "running"

\* the numbers under the given keys that are truthy, in key order
TruthyNumbersUnder(p, keys) ==
    SelectSeq([i \in 1..Len(keys) |-> GetOpt(p, keys[i])],
              LAMBDA v : IsNumber(v) /\ Truthy(v))

\* C12 as claimed: for an object payload, the absolute profit is the first
\* truthy number among profit_total, profit_sum, profit_abs, 0 when there is
\* none; the percentage text is the first truthy number among profit_pct,
\* profit_percent, profit_ratio times 100 followed by "%", and "n/a" in every
\* other case.
C12_ProfitFirstTruthyNumber ==
    (Returned("extract_profit") /\ call.arg.t = "obj") =>
        LET p == call.arg
            amounts == TruthyNumbersUnder(p, <<"profit_total", "profit_sum", "profit_abs">>)
            shares == TruthyNumbersUnder(p, <<"profit_pct", "profit_percent", "profit_ratio">>)
        IN  /\ Flat(result[1]) = Format8(IF amounts = <<>> THEN JNum(0) ELSE amounts[1])
            /\ Flat(result[2]) = IF shares = <<>> THEN "n/a" ELSE Pct2(shares[1])

\* C12 as amended: the absolute profit is the first truthy value among
\* profit_total, profit_sum, profit_abs, 0 when none is truthy, written with
\* 8 decimals if it is a number and as its text otherwise; the percentage is
\* the first truthy value among profit_pct and profit_percent, else the value
\* under profit_ratio; its text is the value times 100 with 2 decimals
\* followed by "%" if it is a number (a zero profit_ratio included), the text
\* of the value if it is truthy and not a number, and "n/a" otherwise.
C12_ProfitFirstTruthy ==
    (Returned("extract_profit") /\ call.arg.t = "obj") =>
        LET p == call.arg
            amounts == TruthyUnder(p, <<"profit_total", "profit_sum", "profit_abs">>)
            amount == IF amounts = <<>> THEN JNum(0) ELSE amounts[1]
            shares == TruthyUnder(p, <<"profit_pct", "profit_percent">>)
            share == IF shares = <<>> THEN GetOpt(p, "profit_ratio") ELSE shares[1]
            pct == Flat(result[2])
        IN  /\ Flat(result[1]) = IF IsNumber(amount) THEN Format8(amount)
                                 ELSE Flat(Str(amount))
            /\ pct = IF IsNumber(share) THEN Pct2(share)
                     ELSE IF Truthy(share) THEN Flat(Str(share))
                     ELSE "n/a"
            /\ IsNumber(share) => SubSeq(pct, Len(pct), Len(pct)) = "%"
            /\ share = JFloat(-12500) => pct = "-125.00%"
            /\ amount = JNum(5) => Flat(result[1]) = "5.00000000"

C12_Witness ==
    /\ Returned("extract_profit") /\ call.arg.t = "obj"
    /\ GetOpt(call.arg, "profit_pct") = JNum(0)
    /\ GetOpt(call.arg, "profit_ratio") = JFloat(537)
    /\ result = <<<<"0.00000000">>, <<"5.37%">>>>

\* the value under the first of the keys that is present, else the default
FirstPresent(p, keys, default) ==
    LET at == {i \in 1..Len(keys) : HasKey(p, keys[i])}
    IN  IF at = {} THEN default
        ELSE Get(p, keys[CHOOSE i \in at : \A j \in at : i <= j])

\* C13: for an object payload, the section is the value under the first
\* present key among wallets, balance, total, else the payload; if it is an
\* object with at least one entry the result is the ", "-join of its first 5
\* entries, each "CUR: amount" with the entry's total/available/free value
\* for an object entry and the raw value otherwise; else the result is the
\* JSON text of the section cut to 200 characters.
C13_BalanceSummary ==
    (Returned("extract_balance") /\ call.arg.t = "obj") =>
        LET p == call.arg
            section == FirstPresent(p, <<"wallets", "balance", "total">>, p)
            amount(e) == IF e.v.t = "obj"
                         THEN FirstPresent(e.v, <<"total", "available", "free">>, JNull)
                         ELSE e.v
            parts == [i \in 1..Min(5, Len(section.o)) |->
                        <<section.o[i].k, ": ">> \o Str(amount(section.o[i]))]
        IN  Flat(result) = IF section.t = "obj" /\ section.o # <<>>
                           THEN Flat(JoinWith(", ", parts))
                           ELSE Take(Dumps(section), 200)

\* C14: for a payload x that is not an object, extract_status and
\* extract_profit return the pair of str(x) and "n/a", and extract_balance
\* returns str(x); none of them raises.
C14_NonObjectPayload ==
    (pc = "return" /\ call.fn \in {"extract_status", "extract_profit", "extract_balance"}
        /\ call.arg.t # "obj") =>
        LET x == call.arg
            text == IF call.fn = "extract_balance" THEN Flat(result) ELSE Flat(result[1])
        IN  /\ text = Flat(Str(x))
            /\ call.fn # "extract_balance" => Len(result) = 2 /\ Flat(result[2]) = "n/a"
            /\ x = JNull => text = "None"
            /\ x = JBool(FALSE) => text = "False"
            /\ x = JFloat(537) => text = "0.0537"
            /\ x = JStr(<<"stopped">>) => text = "stopped"
            /\ x = JList(<<>>) => text = "[]"

C14_Witness ==
    /\ Returned("extract_balance")
    /\ call.arg = JList(<<JNum(1), JStr(<<"a">>), JNull>>)
    /\ Flat(result) = "[1, 'a', None]"

\* C15: format_pairlist returns the empty string for an empty input whatever
\* the style; for n > 0 pairs in list style with limit L it returns a heading
\* reporting n as total and the number of shown items as shown, followed by
\* exactly min(L, n) lines, the i-th of them carrying rank i and the i-th
\* pair of the input.
C15_ListStyleLimit ==
    Returned("format_pairlist") =>
        LET given == call.pairs.l
            n == Len(given)
            lines == Lines(result)
        IN  IF n = 0 THEN result = <<>>
            ELSE Style(call.style) # "columns" =>
                /\ Len(lines) = 1 + Min(call.limit, n)
                /\ Flat(lines[1]) = call.heading \o " (" \o ToString(n) \o " total, showing "
                                        \o ToString(Len(lines) - 1) \o "):"
                /\ \A i \in 1..(Len(lines) - 1) :
                        Flat(lines[i + 1]) = Rank2(i) \o ". " \o Flat(given[i].s)

\* C16: in columns style with column count C (below 1 taken as 1) and column
\* width W (below 8 taken as 8), between the two fence lines the shown items
\* stand in input order with ranks 1..shown, left to right in rows: every row
\* but the last holds exactly C labels, the last holds 1 to C, no row is
\* empty, each shown item occurs once, and every label is padded with spaces
\* to the width W (a longer label is kept whole). With nothing to show the
\* block holds no label.
C16_ColumnsRows ==
    (Returned("format_pairlist") /\ call.pairs.l # <<>> /\ Style(call.style) = "columns") =>
        LET given == call.pairs.l
            n == Len(given)
            C == IF call.columns < 1 THEN 1 ELSE call.columns
            W == IF call.colwidth < 8 THEN 8 ELSE call.colwidth
            lines == Lines(result)
            rows == SubSeq(lines, 3, Len(lines) - 1)
            cells == JoinWith("", rows)
            labels == SelectSeq(cells, LAMBDA c : c # "")
            shown == Len(labels)
            text(i) == Rank2(i) \o ". " \o Flat(given[i].s)
        IN  /\ Len(lines) >= 4
            /\ lines[2] = <<Fence>> /\ lines[Len(lines)] = <<Fence>>
            /\ Flat(lines[1]) = call.heading \o " (" \o ToString(n) \o " total, showing "
                                    \o ToString(shown) \o "):"
            /\ shown <= n
            /\ call.limit >= 0 => shown = Min(call.limit, n)
            /\ IF shown = 0 THEN rows = <<<<>>>>
               ELSE /\ \A r \in 1..(Len(rows) - 1) : Len(rows[r]) = C
                    /\ Len(rows[Len(rows)]) \in 1..C
                    /\ \A r \in 1..Len(rows) : rows[r] # <<>> /\ "" \notin Range(rows[r])
                    /\ Len(rows) = (shown + C - 1) \div C
            /\ \A i \in 1..shown :
                    /\ labels[i] = Ljust(text(i), Len(labels[i]))
                    /\ Len(labels[i]) = IF Len(text(i)) > W THEN Len(text(i)) ELSE W

C16_Witness ==
    /\ Returned("format_pairlist")
    /\ Style(call.style) = "columns" /\ call.style # "columns"
    /\ call.columns = 2 /\ call.colwidth = 0 /\ call.limit = 25
    /\ Len(call.pairs.l) = 3
    /\ Len(Lines(result)) = 5
    /\ Len(Lines(result)[3]) = 2 /\ Len(Lines(result)[4]) = 1

\* the pairlist fetch_whitelist is to resolve from a body
ResolvedPairlist(d) ==
    IF d.t = "list" THEN StrEach(d.l)
    ELSE IF d.t = "obj" THEN
        LET known == {i \in 1..Len(KnownKeys) :
                        HasKey(d, KnownKeys[i]) /\ Get(d, KnownKeys[i]).t = "list"}
            colls == {i \in 1..Len(d.o) : d.o[i].v.t = "list"}
        IN  IF known # {}
            THEN StrEach(Get(d, KnownKeys[CHOOSE i \in known : \A j \in known : i <= j]).l)
            ELSE IF colls # {}
            THEN StrEach(d.o[CHOOSE i \in colls : \A j \in colls : i <= j].v.l)
            ELSE <<>>
    ELSE <<>>

\* C17: the message is the title line, the timestamp line and the Status,
\* Open trades, Profit and Balance lines in that order; a blank line and the
\* pairlist block follow exactly when the pairlist flag is on and a non-empty
\* pairlist was resolved, and nothing follows the Balance line otherwise.
C17_MessageLayout ==
    Returned("run_report") =>
        LET lines == Lines(result)
            block == call.include /\ ResolvedPairlist(call.data) # <<>>
        IN  /\ Len(lines) >= 7
            /\ lines[1] = <<"Freqtrade Status Report">>
            /\ lines[2] = <<"Time: ", call.timestamp>>
            /\ Head(lines[3]) = "Status: "
            /\ Head(lines[4]) = "Open trades: "
            /\ Head(lines[5]) = "Profit: "
            /\ Head(lines[6]) = "Balance: "
            /\ lines[7] = <<>>
            /\ IF block
               THEN Len(lines) >= 9 /\ Head(lines[8]) = call.heading
                    /\ lines[Len(lines)] = <<>>
               ELSE Len(lines) = 7

(***************************************************************************)
(* main in continuous mode, the loop being run without end                 *)
(***************************************************************************)
\* continuous mode with every credential configured
InitLive ==
    /\ Init
    /\ ~once
    /\ ~ApiPlaceholder /\ ~TokenPlaceholder /\ ~ChatPlaceholder

\* the program keeps running: a step that can be taken is taken
SpecLive == InitLive /\ [][Next]_vars /\ WF_vars(Next)

\* C18: in continuous mode, if from some point on no fetch and no send fails,
\* a message is sent again and again, whatever the attempt counter has
\* reached; a successful cycle always goes on to the sleep of the report
\* interval and leaves the attempt counter as it is.
C18_ContinuousRecovers ==
    /\ <>[](pc # "except") => []<>(pc = "after_report" /\ Last(reqLog) = "POST")
    /\ [][pc = "after_report" =>
            pc' = "sleep" /\ sleepFor' = "REPORT_INTERVAL" /\ attempts' = attempts]_vars
    /\ [](pc = "after_report" => lastOutcome = "ok" /\ session = "open")

C18_Witness ==
    /\ ~once /\ pc = "after_report" /\ lastOutcome = "ok"
    /\ ONCE_MAX_ATTEMPTS >= 1 /\ attempts > ONCE_MAX_ATTEMPTS
    /\ Last(reqLog) = "POST"

\* the requests of the attempt that went to the messaging endpoint
Posts == {i \in 1..Len(reqLog) : reqLog[i] = "POST"}

\* C19: an attempt issues at most one POST, as its last request, and ends
\* with it; in single-shot mode the only step that follows a successful send
\* is the return of 0, and no attempt is under way after a successful send,
\* so that at most one send succeeds in a run.
C19_OnePostPerAttempt ==
    /\ [](Cardinality(Posts) <= 1 /\ (Posts # {} => Posts = {Len(reqLog)}))
    /\ [][reqLog' # reqLog /\ Last(reqLog') = "POST" =>
            pc = "send" /\ pc' \in {"after_report", "except"}]_vars
    /\ [][Posts # {} /\ reqLog' # reqLog => pc = "fetch_status" /\ tryNo' = tryNo + 1]_vars
    /\ [](once /\ lastOutcome = "ok" => pc \in {"after_report", "returned"})
    /\ [][once /\ lastOutcome = "ok" =>
            /\ pc = "after_report" /\ pc' = "returned" /\ ret' = 0
            /\ reqLog' = reqLog /\ lastOutcome' = "ok"]_vars
    /\ [][once /\ lastOutcome' = "ok" =>
            \/ lastOutcome = "ok"
            \/ pc = "send" /\ lastOutcome \in {"none", "failed"} /\ tryNo = attempts + 1]_vars

C19_Witness ==
    /\ once /\ pc = "returned" /\ ret = 0
    /\ REPORT_INCLUDE_PAIRLIST /\ Len(reqLog) >= 5
    /\ tryNo = 2 /\ Cardinality(Posts) = 1

\* C20: the session is created by the step that passes the credential check
\* and by no other; every request is issued on it while it is open; main
\* returns after creating it only with the session closed, closed once; and
\* nothing happens after the close.
C20_SessionLifecycle ==
    /\ [](session = "none" =>
            /\ pc = "check_credentials" \/ (pc = "returned" /\ ret = 1 /\ ApiPlaceholder)
            /\ ~anyGet /\ ~anyPost /\ reqLog = <<>> /\ closes = 0)
    /\ [](session # "none" => ~ApiPlaceholder)
    /\ [](closes <= 1 /\ (closes = 1 <=> session = "closed"))
    /\ [](session = "closed" <=> (pc = "returned" /\ ~ApiPlaceholder))
    /\ [][session' # session =>
            \/ session = "none" /\ session' = "open" /\ pc = "check_credentials"
            \/ session = "open" /\ session' = "closed" /\ pc' = "returned"]_vars
    /\ [][reqLog' # reqLog \/ anyGet' # anyGet \/ anyPost' # anyPost =>
            session = "open" /\ session' = "open"]_vars
    /\ [][session # "closed"]_vars

C20_Witness ==
    /\ once /\ pc = "returned" /\ ret = 1
    /\ session = "closed" /\ closes = 1
    /\ anyGet /\ ~anyPost /\ excSeen = {"Exception"}

====
